---------------------------- MODULE Spec2Model ----------------------------
(***************************************************************************)
(* FlashString: length-prefixed read-only objects in flash memory, the     *)
(* tagged length/pointer word of FSTR::ObjectBase, the typed wrapper       *)
(* FSTR::Object<ObjectType, ElementType> and the legacy struct FlashString.*)
(*                                                                         *)
(* A pointer is its address, a 32-bit address of 2^31 or more being kept   *)
(* as address - 2^32.  A uint32_t or size_t value is a 32-bit word kept as *)
(* two 16-bit halves [hi, lo], so that the copy bit 0x80000000 and         *)
(* wrap-around of size_t arithmetic are exact.                             *)
(***************************************************************************)
EXTENDS Integers, Sequences, FiniteSets, TLC

VARIABLES
    flashLength_,   \* address of an existing object |-> its uint32_t flashLength_ word
    memory,         \* address of an object in flash |-> the bytes that follow its length word
    ARCH_HOST,      \* the build defines ARCH_HOST
    NDEBUG,         \* the build defines NDEBUG (assert() compiles to nothing)
    aborted,        \* assert() has failed and the program has stopped
    last            \* the operation that ran last, with its arguments and results

vars == <<flashLength_, memory, ARCH_HOST, NDEBUG, aborted, last>>

----------------------------------------------------------------------------
(* 32-bit unsigned words                                                   *)

Half == 256 * 256

U32(n) == [hi |-> (n \div Half) % Half, lo |-> n % Half]

Zero32 == U32(0)

\* The value of a word below 2^31 as a number.
IsSmall(w) == w.hi < 32768
Nat32(w) == w.hi * Half + w.lo

ULt(a, b) == a.hi < b.hi \/ (a.hi = b.hi /\ a.lo < b.lo)
UGe(a, b) == ~ULt(a, b)

UAdd(a, b) ==
    LET l == a.lo + b.lo
    IN  [hi |-> (a.hi + b.hi + (l \div Half)) % Half, lo |-> l % Half]

USub(a, b) ==
    LET l == a.lo - b.lo
        borrow == IF l < 0 THEN 1 ELSE 0
    IN  [hi |-> (a.hi - b.hi - borrow + 2 * Half) % Half, lo |-> (l + Half) % Half]

\* a * s and a / s for a small factor s (an element size).
UMul(a, s) ==
    LET p == a.lo * s
    IN  [hi |-> (a.hi * s + (p \div Half)) % Half, lo |-> p % Half]

UDiv(a, s) ==
    [hi |-> a.hi \div s, lo |-> ((a.hi % s) * Half + a.lo) \div s]

UMin(a, b) == IF ULt(b, a) THEN b ELSE a

\* Bitwise and of two 16-bit halves: bit by bit, with the cases of an
\* all-zero, all-one, top-bit-only or top-bit-clear mask computed directly.
RECURSIVE AndBits(_, _, _)
AndBits(x, y, n) ==
    IF n = 0 THEN 0
    ELSE (x % 2) * (y % 2) + 2 * AndBits(x \div 2, y \div 2, n - 1)

And16(x, y) ==
    IF y = 0 THEN 0
    ELSE IF y = Half - 1 THEN x
    ELSE IF y = 32768 THEN (x \div 32768) * 32768
    ELSE IF y = 32767 THEN x % 32768
    ELSE AndBits(x, y, 16)

UAnd(a, b) == [hi |-> And16(a.hi, b.hi), lo |-> And16(a.lo, b.lo)]
UNot(a) == [hi |-> Half - 1 - a.hi, lo |-> Half - 1 - a.lo]
UOr(a, b) == UNot(UAnd(UNot(a), UNot(b)))

----------------------------------------------------------------------------
(* The memory image                                                        *)

\* Address ranges.  isFlashPtr() recognises [FlashStart, FlashEnd); static
\* constants and working memory lie below it.
FlashStart == 1075838976
FlashEnd == 1076887552
RamStart == 1073709056

\* Number of objects the program constructs in working memory.
NumRam == 2

\* sizeof(flashLength_)
LengthFieldSize == 4

ALIGNUP(n) == ((n + 3) \div 4) * 4

RECURSIVE Pow256(_)
Pow256(i) == IF i = 0 THEN 1 ELSE 256 * Pow256(i - 1)

\* The bytes of element value v of size s, least significant first.
ElementBytes(v, s) == [i \in 1..s |-> (v \div Pow256(i - 1)) % 256]

RECURSIVE Flatten(_)
Flatten(ss) == IF ss = <<>> THEN <<>> ELSE Head(ss) \o Flatten(Tail(ss))

\* The objects the build places in flash: element size and initialiser.
FlashObjects ==
    << [size |-> 1, elems |-> <<97, 98, 99>>],
       [size |-> 1, elems |-> <<97, 98, 99>>],
       [size |-> 1, elems |-> <<97, 98, 100>>],
       [size |-> 2, elems |-> <<9, 258, 258>>],
       [size |-> 4, elems |-> <<10, 20, 30, 40, 50>>],
       [size |-> 1, elems |-> <<>>] >>

FlashIndex == 1..Len(FlashObjects)

ElementSizes == {1, 2, 4}

FlashAddr(k) == FlashStart + 4096 + 32 * (k - 1)
FlashAddrs == {FlashAddr(k) : k \in FlashIndex}
IndexOfAddr(a) == CHOOSE k \in FlashIndex : FlashAddr(k) = a

\* sizeof(str) - 1, or the byte size of an array's initialiser.
DataLength(k) == Len(FlashObjects[k].elems) * FlashObjects[k].size

\* The data as placed after the length word: the elements, then NUL padding
\* up to a word boundary (a string's terminator included).
DataBytes(k) ==
    LET o == FlashObjects[k]
        raw == Flatten([i \in 1..Len(o.elems) |-> ElementBytes(o.elems[i], o.size)])
        n == IF o.size = 1 THEN ALIGNUP(Len(raw) + 1) ELSE ALIGNUP(Len(raw))
    IN  raw \o [i \in 1..(n - Len(raw)) |-> 0]

\* The flash objects by name.
abc == FlashAddr(1)
abc2 == FlashAddr(2)
abd == FlashAddr(3)
words == FlashAddr(4)
longs == FlashAddr(5)
nul == FlashAddr(6)

\* ObjectBase::empty_ is a static constant outside the flash window.
empty_ == RamStart

\* A local variable of the host build: the stack of a 32-bit process lies at
\* the top of the address space (0xFFFFD000, kept as a signed number).
HostStack == 0 - 3 * 4096

RamAddr(k) == RamStart + 256 + 16 * k
RamAddrs == {RamAddr(k) : k \in 1..NumRam}

copyBit == [hi |-> 32768, lo |-> 0]

Objects == DOMAIN flashLength_

\* The byte at address p.  Unmapped stands for the byte at an address outside the
\* data of every flash object: it is no byte of any stored content.
Unmapped == 0 - 1
ByteAt(p) ==
    IF \E o \in DOMAIN memory :
            o + LengthFieldSize <= p /\ p < o + LengthFieldSize + Len(memory[o])
    THEN LET o == CHOOSE o \in DOMAIN memory :
                    o + LengthFieldSize <= p /\ p < o + LengthFieldSize + Len(memory[o])
         IN  memory[o][p - o - LengthFieldSize + 1]
    ELSE Unmapped

Init ==
    /\ flashLength_ = [a \in FlashAddrs \cup {empty_} |->
                          IF a = empty_ THEN Zero32 ELSE U32(DataLength(IndexOfAddr(a)))]
    /\ memory = [a \in FlashAddrs |-> DataBytes(IndexOfAddr(a))]
    /\ ARCH_HOST \in BOOLEAN
    /\ NDEBUG \in BOOLEAN
    /\ aborted = FALSE
    /\ last = [op |-> "none"]

----------------------------------------------------------------------------
(* ObjectBase                                                              *)

isFlashPtr(p) == FlashStart <= p /\ p < FlashEnd

isCopy(obj) == UAnd(flashLength_[obj], copyBit) # Zero32

\* reinterpret_cast<const ObjectBase*>(word): the address, as a signed number
\* (an address of 2^31 or more is kept as address - 2^32).
AsPointer(w) == IF IsSmall(w) THEN Nat32(w) ELSE (w.hi - Half) * Half + w.lo
\* reinterpret_cast<uint32_t>(pointer)
AsWord(p) == U32(p)

\* assert(isFlashPtr(this)) in getObjectPtr() fails.
AssertFails(obj) ==
    /\ ~ARCH_HOST
    /\ ~NDEBUG
    /\ ~isCopy(obj)
    /\ flashLength_[obj] # Zero32
    /\ ~isFlashPtr(obj)

\* getObjectPtr() without its first branch: a copy is taken for itself.
getObjectPtr_NoCopyBranch(obj) ==
    IF flashLength_[obj] = Zero32 THEN empty_
    ELSE IF ARCH_HOST THEN obj
    ELSE IF isFlashPtr(obj) THEN obj
    ELSE empty_

\* getObjectPtr() that takes every handle that is no copy and not empty for
\* itself, wherever it lies.
getObjectPtr_Unguarded(obj) ==
    IF isCopy(obj) THEN AsPointer(UAnd(flashLength_[obj], UNot(copyBit)))
    ELSE IF flashLength_[obj] = Zero32 THEN empty_
    ELSE obj

getObjectPtr(obj) ==
    IF isCopy(obj) THEN AsPointer(UAnd(flashLength_[obj], UNot(copyBit)))
    ELSE IF flashLength_[obj] = Zero32 THEN empty_
    ELSE IF ARCH_HOST THEN obj
    ELSE IF isFlashPtr(obj) THEN obj
    ELSE empty_

\* The length word read at ptr.  (Where no object lies at ptr the word read
\* is not the length of any object.)
getObjectLength(ptr) == IF ptr \in Objects THEN flashLength_[ptr] ELSE UNot(Zero32)

getObjectData(ptr) == ptr + LengthFieldSize

ObjectBase_length(obj) == getObjectLength(getObjectPtr(obj))

ObjectBase_data(obj) == getObjectData(getObjectPtr(obj))

\* The word copy() stores in the new object: the tag bit and the address of
\* the source object; a copy of a copy refers to the same source, so that every
\* copy resolves back to the canonical instance in one step.
copy(obj) ==
    IF isCopy(obj) THEN flashLength_[obj]
    ELSE UOr(AsWord(obj), copyBit)

\* The word invalidate() stores.
invalidate == Zero32

\* The program is single-threaded and synchronous: an operation starts when
\* the previous one has returned, and none starts after an abort.
Idle == ~aborted /\ last.op = "none"

\* The caller takes the result of the operation that ran last.
Return ==
    /\ ~aborted
    /\ last.op # "none"
    /\ last' = [op |-> "none"]
    /\ UNCHANGED <<flashLength_, memory, ARCH_HOST, NDEBUG, aborted>>

FreeRam == {r \in RamAddrs : r \notin Objects /\ \A q \in RamAddrs : q < r => q \in Objects}

\* A copy constructor that writes the reference into its source.
CopyConstruct_IntoSource(dst, obj) ==
    /\ Idle
    /\ dst \in FreeRam
    /\ flashLength_' = (dst :> flashLength_[obj]) @@ [flashLength_ EXCEPT ![obj] = UOr(AsWord(dst), copyBit)]
    /\ last' = [op |-> "copy", obj |-> obj, dst |-> dst]
    /\ UNCHANGED <<memory, ARCH_HOST, NDEBUG, aborted>>

\* Object(const Object& obj): a new object in working memory made from obj.
CopyConstruct(dst, obj) ==
    /\ Idle
    /\ dst \in FreeRam
    /\ flashLength_' = (dst :> copy(obj)) @@ flashLength_
    /\ last' = [op |-> "copy", obj |-> obj, dst |-> dst]
    /\ UNCHANGED <<memory, ARCH_HOST, NDEBUG, aborted>>

\* Object(): a null object in working memory.
DefaultConstruct(dst) ==
    /\ Idle
    /\ dst \in FreeRam
    /\ flashLength_' = (dst :> invalidate) @@ flashLength_
    /\ last' = [op |-> "construct", dst |-> dst]
    /\ UNCHANGED <<memory, ARCH_HOST, NDEBUG, aborted>>

\* The object structure copied directly (its length word alone, by value)
\* into working memory, as getObjectPtr() anticipates.  (Copied directly, a copy
\* or a null object gives the word the constructors above give.)
DirectCopy(dst, obj) ==
    /\ Idle
    /\ dst \in FreeRam
    /\ ~isCopy(obj)
    /\ flashLength_[obj] # Zero32
    /\ flashLength_' = (dst :> flashLength_[obj]) @@ flashLength_
    /\ last' = [op |-> "direct", obj |-> obj, dst |-> dst]
    /\ UNCHANGED <<memory, ARCH_HOST, NDEBUG, aborted>>

\* Object() for a local variable of the host build.
StackConstruct ==
    /\ Idle
    /\ ARCH_HOST
    /\ HostStack \notin Objects
    /\ flashLength_' = (HostStack :> invalidate) @@ flashLength_
    /\ last' = [op |-> "construct", dst |-> HostStack]
    /\ UNCHANGED <<memory, ARCH_HOST, NDEBUG, aborted>>

\* An operation that resolves obj stops the program when the assertion fails.
Abort(obj) ==
    /\ aborted' = TRUE
    /\ last' = [op |-> "abort", obj |-> obj]
    /\ UNCHANGED <<flashLength_, memory, ARCH_HOST, NDEBUG>>

----------------------------------------------------------------------------
(* Byte-granular reads                                                     *)

\* Capacity of the caller's buffer.
BufferSize == 32

\* pointer + offset, in 32-bit pointer arithmetic
PtrAdd(p, offset) == AsPointer(UAdd(AsWord(p), offset))

\* Number of buffer bytes a copy of count bytes writes (a count beyond the
\* buffer overruns it: every byte of the buffer is written).
CopyLen(count) == IF count.hi > 0 \/ count.lo > BufferSize THEN BufferSize ELSE count.lo

\* memcpy_P(buffer, src, count): the bytes written to buffer[0 .. count).
memcpy_P(src, count) == [i \in 1..CopyLen(count) |-> ByteAt(src + i - 1)]

\* flashmem_get_address(ptr): the device address of a cache-mapped address.
flashmem_get_address(ptr) == USub(AsWord(ptr), AsWord(FlashStart))

NothingRead == [ret |-> Zero32, buffer |-> <<>>]

\* flashmem_read(buffer, addr, count): reads the device; fails (0 bytes) when
\* the range is not inside the device.
flashmem_read(addr, count) ==
    LET size == AsWord(FlashEnd - FlashStart)
    IN  IF ULt(addr, size) /\ UGe(USub(size, addr), count)
        THEN [ret |-> count,
              buffer |-> [i \in 1..CopyLen(count) |->
                             ByteAt(FlashStart + Nat32(addr) + i - 1)]]
        ELSE NothingRead

ObjectBase_read(obj, offset, count) ==
    LET len == ObjectBase_length(obj)
    IN  IF UGe(offset, len) THEN NothingRead
        ELSE LET n == UMin(USub(len, offset), count)
             IN  [ret |-> n, buffer |-> memcpy_P(PtrAdd(ObjectBase_data(obj), offset), n)]

ObjectBase_readFlash(obj, offset, count) ==
    LET ptr == getObjectPtr(obj)
        len == getObjectLength(ptr)
    IN  IF UGe(offset, len) THEN NothingRead
        ELSE LET n == UMin(USub(len, offset), count)
                 addr == flashmem_get_address(PtrAdd(getObjectData(ptr), offset))
             IN  flashmem_read(addr, n)

\* struct FlashString (the legacy header): the length word is the length.
FlashString_length(obj) == flashLength_[obj]

FlashString_data(obj) == obj + LengthFieldSize

\* read() that copies as many bytes as were asked for.
FlashString_read_Unclamped(obj, offset, bytesToRead) ==
    IF UGe(offset, flashLength_[obj]) THEN NothingRead
    ELSE [ret |-> bytesToRead,
          buffer |-> memcpy_P(PtrAdd(FlashString_data(obj), offset), bytesToRead)]

FlashString_read(obj, offset, bytesToRead) ==
    IF UGe(offset, flashLength_[obj]) THEN NothingRead
    ELSE LET count == UMin(USub(flashLength_[obj], offset), bytesToRead)
         IN  [ret |-> count,
              buffer |-> memcpy_P(PtrAdd(FlashString_data(obj), offset), count)]

\* The FlashString instances DEFINE_FSTR places in flash.
FlashStrings == {a \in FlashAddrs : FlashObjects[IndexOfAddr(a)].size = 1}

Frame == UNCHANGED <<flashLength_, memory, ARCH_HOST, NDEBUG, aborted>>

\* length(), data() and isCopy() of obj.
Length(obj) ==
    /\ Idle
    /\ IF AssertFails(obj) THEN Abort(obj)
       ELSE /\ last' = [op |-> "length", obj |-> obj, isCopy |-> isCopy(obj),
                        length |-> ObjectBase_length(obj), data |-> ObjectBase_data(obj)]
            /\ Frame

\* The words a read of memory that holds no object may give.
WildWords == {Zero32, U32(3), UNot(Zero32)}

\* length() and data() of a handle that resolves to an address where no
\* object lies: the length word is read from memory that is not the
\* program's to read; the read gives any word, or stops the program.
LengthOfWild(obj) ==
    /\ Idle
    /\ getObjectPtr(obj) \notin Objects
    /\ \/ Abort(obj)
       \/ /\ \E w \in WildWords :
                last' = [op |-> "length", obj |-> obj, isCopy |-> isCopy(obj),
                         length |-> w, data |-> ObjectBase_data(obj)]
          /\ Frame

Read(obj, offset, count) ==
    /\ Idle
    /\ IF AssertFails(obj) THEN Abort(obj)
       ELSE /\ last' = [op |-> "read", obj |-> obj, offset |-> offset, count |-> count,
                        res |-> ObjectBase_read(obj, offset, count)]
            /\ Frame

ReadFlash(obj, offset, count) ==
    /\ Idle
    /\ IF AssertFails(obj) THEN Abort(obj)
       ELSE /\ last' = [op |-> "readFlash", obj |-> obj, offset |-> offset, count |-> count,
                        res |-> ObjectBase_readFlash(obj, offset, count)]
            /\ Frame

FlashStringRead(obj, offset, count) ==
    /\ Idle
    /\ last' = [op |-> "FlashString::read", obj |-> obj, offset |-> offset, count |-> count,
                res |-> FlashString_read(obj, offset, count)]
    /\ Frame

----------------------------------------------------------------------------
(* Object<ObjectType, ElementType>                                         *)

\* The element sizes obj may be viewed with: that of the flash object it
\* refers to; any, where it refers to none.
ReferredObject(obj) ==
    IF isCopy(obj) THEN AsPointer(UAnd(flashLength_[obj], UNot(copyBit))) ELSE obj

SizesOf(obj) ==
    IF ReferredObject(obj) \in FlashAddrs
    THEN {FlashObjects[IndexOfAddr(ReferredObject(obj))].size}
    ELSE ElementSizes

\* (int) of a 32-bit word
ToInt(w) == AsPointer(w)

\* readValue(ptr) for an element of the given size; Unmapped when a byte of
\* it is.
readValue(size, ptr) ==
    LET bytes == [i \in 1..size |-> ByteAt(ptr + i - 1)]
    IN  IF \E i \in 1..size : bytes[i] = Unmapped THEN Unmapped
        ELSE IF size = 1 THEN bytes[1]
        ELSE IF size = 2 THEN bytes[1] + 256 * bytes[2]
        ELSE bytes[1] + 256 * bytes[2] + 256 * 256 * bytes[3] + 256 * 256 * 256 * bytes[4]

Object_length(obj, size) == UDiv(ObjectBase_length(obj), size)

Object_data(obj, size) == ObjectBase_data(obj)

\* valueAt() that takes length() for an index.
valueAt_Inclusive(obj, size, index) ==
    IF ULt(index, Object_length(obj, size)) \/ index = Object_length(obj, size)
    THEN LET ptr == PtrAdd(Object_data(obj, size), UMul(index, size))
         IN  [value |-> readValue(size, ptr), touched |-> {ptr + i : i \in 0..(size - 1)}]
    ELSE [value |-> 0, touched |-> {}]

\* valueAt(index): the value, and the addresses read for it.
valueAt(obj, size, index) ==
    IF ULt(index, Object_length(obj, size))
    THEN LET ptr == PtrAdd(Object_data(obj, size), UMul(index, size))
         IN  [value |-> readValue(size, ptr), touched |-> {ptr + i : i \in 0..(size - 1)}]
    ELSE [value |-> 0, touched |-> {}]

OperatorIndex(obj, size, index) == valueAt(obj, size, index)

\* indexOf(value): the loop from index i on; the result and the number of
\* comparisons made.
RECURSIVE indexOfFrom(_, _, _, _, _)
indexOfFrom(obj, size, value, i, len) ==
    IF ~(i < len) THEN [ret |-> 0 - 1, comparisons |-> i]
    ELSE IF valueAt(obj, size, U32(i)).value = value THEN [ret |-> i, comparisons |-> i + 1]
    ELSE indexOfFrom(obj, size, value, i + 1, len)

\* indexOf() whose loop starts at 1.
indexOf_FromOne(obj, size, value) ==
    indexOfFrom(obj, size, value, 1, ToInt(Object_length(obj, size)))

indexOf(obj, size, value) ==
    indexOfFrom(obj, size, value, 0, ToInt(Object_length(obj, size)))

Object_read(obj, size, index, count) ==
    LET offset == UMul(index, size)
        bytes == UMul(count, size)
    IN  [ObjectBase_read(obj, offset, bytes) EXCEPT !.ret = UDiv(@, size)]

Object_readFlash(obj, size, index, count) ==
    LET offset == UMul(index, size)
        bytes == UMul(count, size)
    IN  [ObjectBase_readFlash(obj, offset, bytes) EXCEPT !.ret = UDiv(@, size)]

\* begin() and end(): an iterator is the object and a position.
begin(obj, size) == [obj |-> obj, pos |-> 0]
\* end() at the length in bytes.
end_Bytes(obj, size) == [obj |-> obj, pos |-> ToInt(ObjectBase_length(obj))]

end(obj, size) == [obj |-> obj, pos |-> ToInt(Object_length(obj, size))]

ValueAt(obj, size, index) ==
    /\ Idle
    /\ IF AssertFails(obj) THEN Abort(obj)
       ELSE /\ last' = [op |-> "valueAt", obj |-> obj, size |-> size, index |-> index,
                        res |-> valueAt(obj, size, index),
                        subscript |-> OperatorIndex(obj, size, index)]
            /\ Frame

IndexOf(obj, size, value) ==
    /\ Idle
    /\ IF AssertFails(obj) THEN Abort(obj)
       ELSE /\ last' = [op |-> "indexOf", obj |-> obj, size |-> size, value |-> value,
                        res |-> indexOf(obj, size, value)]
            /\ Frame

TypedRead(obj, size, index, count) ==
    /\ Idle
    /\ IF AssertFails(obj) THEN Abort(obj)
       ELSE /\ last' = [op |-> "Object::read", obj |-> obj, size |-> size, index |-> index,
                        count |-> count, res |-> Object_read(obj, size, index, count)]
            /\ Frame

TypedReadFlash(obj, size, index, count) ==
    /\ Idle
    /\ IF AssertFails(obj) THEN Abort(obj)
       ELSE /\ last' = [op |-> "Object::readFlash", obj |-> obj, size |-> size,
                        index |-> index, count |-> count,
                        res |-> Object_readFlash(obj, size, index, count)]
            /\ Frame

\* for(auto it = obj.begin(); it != obj.end(); ++it) { *it }
IterBegin(obj, size) ==
    /\ Idle
    /\ IF AssertFails(obj) THEN Abort(obj)
       ELSE /\ last' = [op |-> "iterate", obj |-> obj, size |-> size,
                        it |-> begin(obj, size), yielded |-> <<>>]
            /\ Frame

IterNext ==
    /\ ~aborted
    /\ last.op = "iterate"
    /\ last.it # end(last.obj, last.size)
    /\ last' = [last EXCEPT
                   !.yielded = Append(@, valueAt(last.obj, last.size, U32(last.it.pos)).value),
                   !.it = [obj |-> last.it.obj, pos |-> last.it.pos + 1]]
    /\ Frame

----------------------------------------------------------------------------
(* Equality                                                                *)

\* Size of the stack buffer isEqual() loads the data into.
CompareBufferSize == 2

\* The bytes of a and b from offset on match, compared a buffer at a time.
RECURSIVE bytesEqualFrom(_, _, _, _)
bytesEqualFrom(a, b, offset, len) ==
    IF ~(offset < len) THEN TRUE
    ELSE LET ra == ObjectBase_read(a, U32(offset), U32(CompareBufferSize))
             rb == ObjectBase_read(b, U32(offset), U32(CompareBufferSize))
         IN  /\ ra = rb
             /\ bytesEqualFrom(a, b, offset + CompareBufferSize, len)

isEqual(a, b) ==
    /\ ObjectBase_length(a) = ObjectBase_length(b)
    /\ bytesEqualFrom(a, b, 0, ToInt(ObjectBase_length(a)))

OperatorEq(a, b) == isEqual(a, b)

OperatorNe(a, b) == ~isEqual(a, b)

Compare(a, b) ==
    /\ Idle
    /\ IF AssertFails(a) THEN Abort(a)
       ELSE IF AssertFails(b) THEN Abort(b)
       ELSE /\ last' = [op |-> "compare", a |-> a, b |-> b,
                        eq |-> OperatorEq(a, b), ne |-> OperatorNe(a, b)]
            /\ Frame

----------------------------------------------------------------------------
(* Specifications                                                          *)

\* Offsets, indexes and counts the callers pass.
MaxOffset == 3
UINT32_MAX == [hi |-> Half - 1, lo |-> Half - 1]
Offsets == {U32(n) : n \in 0..MaxOffset} \cup {UINT32_MAX}
Counts == {U32(0), U32(2), UINT32_MAX}

\* (2^30 and 2^30 + 1 times an element size of 4 wrap to 0 and 4.)
Indexes == {U32(n) : n \in 0..MaxOffset} \cup {U32(5), UINT32_MAX}
TypedIndexes == {U32(0), U32(1), U32(5), [hi |-> 16384, lo |-> 0]}
TypedCounts == {U32(0), U32(2), [hi |-> 16384, lo |-> 1], UINT32_MAX}
Values == {0, 9, 40, 97, 258}

\* Objects made in working memory from the given flash objects (and from
\* the objects made before).
Construct(sources) ==
    \/ \E dst \in RamAddrs, obj \in Objects \ (FlashAddrs \ sources) : CopyConstruct(dst, obj)
    \/ \E dst \in RamAddrs : DefaultConstruct(dst)
    \/ \E dst \in RamAddrs, obj \in Objects \ (FlashAddrs \ sources) : DirectCopy(dst, obj)

Next ==
    \/ Construct(FlashAddrs)
    \/ Return
    \/ \E obj \in Objects : Length(obj)
    \/ \E obj \in Objects : Read(obj, Zero32, UINT32_MAX)
    \/ \E obj \in Objects : ReadFlash(obj, Zero32, UINT32_MAX)

Spec == Init /\ [][Next]_vars

NextRead ==
    \/ Construct({abc, nul})
    \/ Return
    \/ \E obj \in Objects, offset \in Offsets, count \in Counts : Read(obj, offset, count)
    \/ \E obj \in FlashStrings, offset \in Offsets, count \in Counts :
          FlashStringRead(obj, offset, count)

SpecRead == Init /\ [][NextRead]_vars

NextReadFlash ==
    \/ Construct({abc, nul})
    \/ Return
    \/ \E obj \in Objects, offset \in Offsets, count \in Counts : ReadFlash(obj, offset, count)

SpecReadFlash == Init /\ [][NextReadFlash]_vars

NextTyped ==
    \/ Construct({words, longs})
    \/ Return
    \/ \E obj \in Objects : \E size \in SizesOf(obj) :
          \E index \in TypedIndexes, count \in TypedCounts : TypedRead(obj, size, index, count)
    \/ \E obj \in Objects : \E size \in SizesOf(obj) :
          \E index \in TypedIndexes, count \in TypedCounts :
             TypedReadFlash(obj, size, index, count)

SpecTyped == Init /\ [][NextTyped]_vars

NextValue ==
    \/ Construct({words, longs})
    \/ Return
    \/ \E obj \in Objects : \E size \in SizesOf(obj) :
          \E index \in Indexes : ValueAt(obj, size, index)
    \/ \E obj \in Objects : \E size \in SizesOf(obj) :
          \E value \in Values : IndexOf(obj, size, value)

SpecValue == Init /\ [][NextValue]_vars

NextIterate ==
    \/ Construct({words, longs, nul})
    \/ Return
    \/ \E obj \in Objects : \E size \in SizesOf(obj) : IterBegin(obj, size)
    \/ IterNext

SpecIterate == Init /\ [][NextIterate]_vars

NextCompare ==
    \/ Construct({abc, abd, nul})
    \/ Return
    \/ \E a \in Objects, b \in Objects : Compare(a, b)

SpecCompare == Init /\ [][NextCompare]_vars

\* Every operation, by any reader, in any order.
NextFrame ==
    \/ Construct({abc, longs})
    \/ Return
    \/ \E obj \in Objects : Length(obj)
    \/ \E obj \in Objects : Read(obj, U32(1), UINT32_MAX)
    \/ \E obj \in Objects : ReadFlash(obj, U32(1), UINT32_MAX)
    \/ \E obj \in Objects : \E size \in SizesOf(obj) :
          \E index \in {U32(1), U32(5)} : ValueAt(obj, size, index)
    \/ \E obj \in Objects : \E size \in SizesOf(obj) : IndexOf(obj, size, 40)
    \/ \E obj \in Objects : \E size \in SizesOf(obj) : IterBegin(obj, size)
    \/ IterNext

SpecFrame == Init /\ [][NextFrame]_vars

\* Handles made by the constructors alone, from the flash objects, the empty
\* singleton and each other.
NextCopies ==
    \/ \E dst \in RamAddrs, obj \in Objects : CopyConstruct(dst, obj)
    \/ \E dst \in RamAddrs : DefaultConstruct(dst)
    \/ StackConstruct
    \/ Return
    \/ \E obj \in Objects : getObjectPtr(obj) \in Objects /\ Length(obj)
    \/ \E obj \in Objects : LengthOfWild(obj)

SpecCopies == Init /\ [][NextCopies]_vars

----------------------------------------------------------------------------
(* What the objects hold                                                   *)

\* The flash image as the build made it.
Image == [a \in FlashAddrs |-> DataBytes(IndexOfAddr(a))]

\* obj is a canonical instance in flash or a copy of one.
HasCanonicalInstance(obj) == ReferredObject(obj) \in FlashAddrs

\* The bytes and the elements stored in the object obj resolves to: those of
\* the initialiser of a flash object, none for the empty object, and bytes
\* that are no stored content for an object in working memory.
StoredBytes(obj) ==
    LET ptr == getObjectPtr(obj)
    IN  IF ptr \in FlashAddrs
        THEN SubSeq(DataBytes(IndexOfAddr(ptr)), 1, DataLength(IndexOfAddr(ptr)))
        ELSE [i \in 1..ToInt(getObjectLength(ptr)) |-> Unmapped]

StoredElements(obj, size) ==
    LET ptr == getObjectPtr(obj)
    IN  IF ptr \in FlashAddrs THEN FlashObjects[IndexOfAddr(ptr)].elems
        ELSE [i \in 1..(ToInt(getObjectLength(ptr)) \div size) |-> Unmapped]

----------------------------------------------------------------------------
(* Claims                                                                  *)

ExpectedRead(bytes, offset, count) ==
    IF UGe(offset, U32(Len(bytes))) THEN [ret |-> Zero32, buffer |-> <<>>]
    ELSE LET n == UMin(USub(U32(Len(bytes)), offset), count)
         IN  [ret |-> n, buffer |-> SubSeq(bytes, offset.lo + 1, offset.lo + n.lo)]

\* C2: read(offset, buffer, count), on any handle and on the legacy
\* FlashString, returns 0 and leaves the buffer alone when offset >= length();
\* otherwise it returns min(count, length() - offset) and the buffer holds
\* exactly the stored bytes [offset, offset + ret).
C2_Read ==
    last.op \in {"read", "FlashString::read"} =>
        /\ ObjectBase_length(last.obj) = U32(Len(StoredBytes(last.obj)))
        /\ last.res = ExpectedRead(StoredBytes(last.obj), last.offset, last.count)
        /\ UGe(last.offset, ObjectBase_length(last.obj)) =>
              last.res.ret = Zero32 /\ last.res.buffer = <<>>
        /\ ULt(last.offset, ObjectBase_length(last.obj)) =>
              /\ last.res.ret = UMin(last.count, USub(ObjectBase_length(last.obj), last.offset))
              /\ Len(last.res.buffer) = last.res.ret.lo

\* A copy was read from offset 1 with the largest count.
C2_Witness ==
    /\ last.op = "read"
    /\ isCopy(last.obj)
    /\ last.offset = U32(1)
    /\ last.count = UINT32_MAX
    /\ last.res = [ret |-> U32(2), buffer |-> <<98, 99>>]

\* The handle the resolve rule names for obj: the address under the tag of a
\* copy; the empty singleton for a length word of 0; the empty singleton for
\* a handle outside the flash region in a build for a device; else obj.
Resolved(obj) ==
    IF UAnd(flashLength_[obj], copyBit) # Zero32
    THEN AsPointer(UAnd(flashLength_[obj], UNot(copyBit)))
    ELSE IF flashLength_[obj] = Zero32 THEN empty_
    ELSE IF ~ARCH_HOST /\ ~isFlashPtr(obj) THEN empty_
    ELSE obj

\* The handle the three-way rule names for obj.
ThreeWay(obj) ==
    IF UAnd(flashLength_[obj], copyBit) # Zero32
    THEN AsPointer(UAnd(flashLength_[obj], UNot(copyBit)))
    ELSE IF flashLength_[obj] = Zero32 THEN empty_
    ELSE obj

\* The bytes at the data of the object at ptr, by its own length word.
RawBytes(ptr) == [i \in 1..flashLength_[ptr].lo |-> ByteAt(ptr + LengthFieldSize + i - 1)]

\* The last call of length(), data(), read() or readFlash() worked on the
\* handle ptr.
OperatesOn(ptr) ==
    /\ last.op = "length" =>
          /\ last.length = flashLength_[ptr]
          /\ last.data = ptr + LengthFieldSize
    /\ last.op = "read" =>
          /\ last.res.ret = flashLength_[ptr]
          /\ last.res.buffer = RawBytes(ptr)
    /\ (last.op = "readFlash" /\ (isFlashPtr(ptr) \/ ptr = empty_)) =>
          /\ last.res.ret = flashLength_[ptr]
          /\ last.res.buffer = RawBytes(ptr)

\* C3 (as stated): resolve is a three-way rule -- the address under the tag
\* of a copy, the empty singleton for a length field of 0, else the handle
\* itself -- and length(), data() and both read backends operate on the
\* resolved handle.
C3_ThreeWayRule ==
    /\ \A obj \in Objects : getObjectPtr(obj) = ThreeWay(obj)
    /\ last.op \in {"length", "read", "readFlash"} => OperatesOn(ThreeWay(last.obj))

\* C3 (amended): resolve gives the address under the tag of a copy, the empty
\* singleton for a length field of 0, the empty singleton for any other
\* handle outside the flash region unless the build is for the host, and
\* else the handle itself; length(), data() and both read backends operate
\* on the resolved handle.
C3_Resolve ==
    /\ \A obj \in Objects : getObjectPtr(obj) = Resolved(obj)
    /\ last.op \in {"length", "read", "readFlash"} => OperatesOn(Resolved(last.obj))

\* length() was asked of a handle copied by value into working memory, in a
\* build for a device without assertions.
C3_Witness ==
    /\ last.op = "length"
    /\ ~ARCH_HOST
    /\ ~last.isCopy
    /\ flashLength_[last.obj] # Zero32
    /\ ~isFlashPtr(last.obj)
    /\ last.length = Zero32
    /\ last.data = empty_ + LengthFieldSize

\* C8 (as stated): readFlash(offset, buffer, count) returns the count read()
\* returns and fills the buffer with the same bytes, for every canonical,
\* copied or zero-length handle.
C8_ReadFlashIsRead ==
    (/\ last.op = "readFlash"
     /\ (last.obj \in FlashAddrs \/ isCopy(last.obj) \/ flashLength_[last.obj] = Zero32)) =>
        /\ last.res = ObjectBase_read(last.obj, last.offset, last.count)
        /\ last.obj \in FlashStrings =>
              last.res = FlashString_read(last.obj, last.offset, last.count)

\* obj is no copy, not empty, and not in the flash region.
Unverifiable(obj) == ~isCopy(obj) /\ flashLength_[obj] # Zero32 /\ ~isFlashPtr(obj)

\* C9 (as stated): in a build for a device, a handle whose data cannot be
\* verified to lie in the flash region -- one copied by value into working
\* memory, or a copy of one -- resolves to the empty singleton, so that
\* length() is 0 and every read returns 0, and no operation aborts.
C9_UnverifiableIsEmpty ==
    ~ARCH_HOST =>
        /\ ~aborted
        /\ \A obj \in Objects :
              (Unverifiable(obj) \/ (isCopy(obj) /\ Unverifiable(ReferredObject(obj)))) =>
                  /\ getObjectPtr(obj) = empty_
                  /\ ObjectBase_length(obj) = Zero32
                  /\ ObjectBase_read(obj, Zero32, UINT32_MAX).ret = Zero32
                  /\ ObjectBase_readFlash(obj, Zero32, UINT32_MAX).ret = Zero32

\* C4 (as stated): typed read(index, buffer, count) and typed readFlash, on
\* a sequence with a canonical instance, return 0 when index >= length() and
\* else min(count, length() - index) elements, whatever the count, and copy
\* only that many elements.
C4_TypedRead ==
    (last.op \in {"Object::read", "Object::readFlash"} /\ HasCanonicalInstance(last.obj)) =>
        LET len == Object_length(last.obj, last.size)
        IN  /\ UGe(last.index, len) => last.res.ret = Zero32 /\ last.res.buffer = <<>>
            /\ ULt(last.index, len) =>
                  /\ last.res.ret = UMin(last.count, USub(len, last.index))
                  /\ Len(last.res.buffer) = last.res.ret.lo * last.size

\* C5: valueAt(index) is the stored element at index when index < length()
\* and the zero element when index >= length(), reads no address outside the
\* data of the sequence, and operator[] gives the same for every index.
C5_ValueAt ==
    last.op = "valueAt" =>
        LET elems == StoredElements(last.obj, last.size)
            len == Object_length(last.obj, last.size)
            first == ObjectBase_data(last.obj)
        IN  /\ len = U32(Len(elems))
            /\ ULt(last.index, len) => last.res.value = elems[last.index.lo + 1]
            /\ UGe(last.index, len) => last.res.value = 0 /\ last.res.touched = {}
            /\ \A p \in last.res.touched :
                  first <= p /\ p < first + ToInt(ObjectBase_length(last.obj))
            /\ last.subscript = last.res

\* The element at index 5 of a copy of the five-element array was asked for.
C5_Witness ==
    /\ last.op = "valueAt"
    /\ isCopy(last.obj)
    /\ ReferredObject(last.obj) = longs
    /\ last.index = U32(5)
    /\ last.res = [value |-> 0, touched |-> {}]
    /\ last.subscript = last.res

\* C6: indexOf(value) is the smallest index in [0, length()) whose element
\* equals value, and -1 exactly when no element does (so for every value on
\* an empty sequence); it makes at most length() comparisons.
C6_IndexOf ==
    last.op = "indexOf" =>
        LET elems == StoredElements(last.obj, last.size)
            ret == last.res.ret
        IN  /\ ret = 0 - 1 <=> (\A i \in 1..Len(elems) : elems[i] # last.value)
            /\ ret # 0 - 1 =>
                  /\ ret \in 0..(Len(elems) - 1)
                  /\ elems[ret + 1] = last.value
                  /\ \A j \in 1..ret : elems[j] # last.value
            /\ last.res.comparisons <= ToInt(Object_length(last.obj, last.size))
            /\ Object_length(last.obj, last.size) = Zero32 => ret = 0 - 1

\* A value stored twice was looked up, and found at the first of its places.
C6_Witness ==
    /\ last.op = "indexOf"
    /\ getObjectPtr(last.obj) = words
    /\ last.value = 258
    /\ last.res = [ret |-> 1, comparisons |-> 2]

\* C7: an iteration from begin() stops at end() after length() advances,
\* having yielded valueAt(0), ..., valueAt(length() - 1) in order; the
\* position stays within [0, length()], and begin() = end() exactly when
\* length() = 0.  (The position is the number of advances made: each advance
\* adds one value and raises the position by one, and the loop is at end()
\* exactly at position length().)
C7_Iteration ==
    last.op = "iterate" =>
        LET elems == StoredElements(last.obj, last.size)
            len == ToInt(Object_length(last.obj, last.size))
            pos == last.it.pos
        IN  /\ 0 <= pos /\ pos <= len
            /\ Len(last.yielded) = pos
            /\ \A i \in 1..pos :
                  /\ last.yielded[i] = valueAt(last.obj, last.size, U32(i - 1)).value
                  /\ last.yielded[i] = elems[i]
            /\ last.it = end(last.obj, last.size) <=> pos = len
            /\ last.it = end(last.obj, last.size) => last.yielded = elems
            /\ begin(last.obj, last.size) = end(last.obj, last.size) <=> len = 0

\* The iteration over a copy of the five-element array has reached end().
C7_Witness ==
    /\ last.op = "iterate"
    /\ isCopy(last.obj)
    /\ last.it = end(last.obj, last.size)
    /\ last.yielded = <<10, 20, 30, 40, 50>>

\* C10 (as stated): two handles are equal iff their resolved lengths are
\* equal and their resolved data bytes are the same position by position;
\* equality is reflexive and symmetric, a copy of a handle is equal to the
\* handle it was copied from, and operator!= is the negation of operator==.
C10_Equality ==
    last.op = "compare" =>
        /\ last.eq <=> /\ ObjectBase_length(last.a) = ObjectBase_length(last.b)
                       /\ StoredBytes(last.a) = StoredBytes(last.b)
        /\ OperatorEq(last.a, last.a)
        /\ OperatorEq(last.b, last.a) = last.eq
        /\ last.ne = ~last.eq
        /\ (last.b \in RamAddrs /\ flashLength_[last.b] = copy(last.a)) => last.eq

\* The values an iteration over obj yields from begin() to end().
Iterated(obj, size) ==
    [i \in 1..ToInt(Object_length(obj, size)) |-> valueAt(obj, size, U32(i - 1)).value]

\* What the readers of obj get -- by length(), by a read of the whole
\* content, by valueAt and by iteration -- is what the image holds for the
\* object obj resolves to: it depends on no call made before.
ReadersGetTheImage(obj) ==
    /\ ObjectBase_length(obj) = U32(Len(StoredBytes(obj)))
    /\ ObjectBase_read(obj, Zero32, UINT32_MAX) =
          [ret |-> U32(Len(StoredBytes(obj))), buffer |-> StoredBytes(obj)]
    /\ \A size \in SizesOf(obj) : Iterated(obj, size) = StoredElements(obj, size)

C12_ResolvesToCanonical ==
    /\ \A obj \in Objects :
          /\ getObjectPtr(obj) \in FlashAddrs \cup {empty_}
          /\ ~isCopy(getObjectPtr(obj))
    /\ last.op = "length" => IsSmall(last.length)

\* C13 (as stated): the length/tag word is unambiguous: the byte length of a
\* canonical instance never has the tag bit set, no handle lies at an
\* address that uses the tag bit, and clearing the tag bit of the word a
\* copy stores gives exactly the address of the handle it was made from.
C13_Unambiguous ==
    /\ \A c \in FlashAddrs : IsSmall(flashLength_[c]) /\ ~isCopy(c)
    /\ \A obj \in Objects : UAnd(AsWord(obj), copyBit) = Zero32
    /\ (last.op = "copy" /\ ~isCopy(last.obj)) =>
          /\ UAnd(flashLength_[last.dst], UNot(copyBit)) = AsWord(last.obj)
          /\ getObjectPtr(last.dst) = last.obj

============================================================================
